---- MODULE Spec2Model ----
(***************************************************************************)
(* Model of src/runtime.c: the runtime library of the O compiler.          *)
(* Two heap structures, fixed-length arrays and singly linked lists, and   *)
(* the eleven public functions that create, read and write them.           *)
(*                                                                         *)
(* The heap is three tables.  A pointer is an index into its table and 0   *)
(* is the null pointer.  Nothing is ever freed, so a table only grows and  *)
(* the next allocation is always the first unused index.                   *)
(***************************************************************************)
EXTENDS Integers, Sequences, FiniteSets

\* ---------------------------------------------------------------- bounds
\* Capacity of the heap, in machine words, and the largest arguments tried.
MaxWords == 9
MaxLen == 2
MaxVal == 1

\* The null pointer; as an element value it is the "empty marker".
NULL == 0

\* Opaque element references handed in by the caller (void *), NULL included.
Values == NULL..MaxVal
\* int32_t arguments: requested lengths, replicate counts, indices.
Lengths == -1..MaxLen
Counts == -1..MaxLen
Indices == -1..MaxLen
\* Which allocator call, if any, returns NULL during one operation: array
\* creation calls xmalloc and xcalloc, the list functions only xmalloc.
ArrayAllocOutcomes == {"none", "xmalloc", "xcalloc"}
ListAllocOutcomes == {"none", "xmalloc"}

VARIABLES
    arrays,   \* Array objects:    <<[length, data]>>, data[k+1] is data[k] in C
    lists,    \* List objects:     <<[head]>>
    nodes,    \* ListNode objects: <<[value, next]>>
    proc,     \* "running", or "aborted" once abort() was called
    last,     \* the most recent call: operation, arguments, result, abort site
    lastSet,  \* history: per array slot, <<v>> for the latest o_array_set(.., v), <<>> if none
    created   \* history: per array, the Array as its creating call returned it

vars == <<arrays, lists, nodes, proc, last, lastSet, created>>

\* ------------------------------------------------------------ allocation
\* sizeof, in words: Array is {length, data}, ListNode is {value, next},
\* List is {head}; an array's storage is one word per slot.
ArrayWords == 2
NodeWords == 2
ListWords == 1

RECURSIVE SlotWords(_)
SlotWords(arrs) ==
    IF arrs = <<>> THEN 0 ELSE Len(Head(arrs).data) + SlotWords(Tail(arrs))

\* Words the heap holds; an allocation is tried only while it fits in MaxWords.
Used(arrs, lsts, nds) ==
    ArrayWords * Len(arrs) + SlotWords(arrs) + ListWords * Len(lsts) + NodeWords * Len(nds)

Fits(words) == Used(arrays, lists, nodes) + words <= MaxWords

\* xmalloc returns (TRUE) unless malloc gave NULL, in which case it aborts.
xmalloc(fail) == fail # "xmalloc"

\* xcalloc returns (TRUE) unless calloc gave NULL, in which case it aborts.
xcalloc(fail) == fail # "xcalloc"

\* ---------------------------------------------------------------- arrays
\* The storage calloc(count, sizeof(void *)) returns: count zeroed words.
RECURSIVE zeroed(_)
zeroed(count) ==
    IF count <= 0 THEN <<>> ELSE Append(zeroed(count - 1), NULL)

\* Mutant of o_array_new: the negative length is stored unclamped.
o_array_new_unclamped(arrs, length) ==
    Append(arrs, [length |-> length, data |-> zeroed(length)])

\* The array table after o_array_new(length); the new Array is the last entry.
\* calloc zeroes the storage, so every slot starts as NULL.
o_array_new(arrs, length) ==
    LET len == IF length < 0 THEN 0 ELSE length
    IN  Append(arrs, [length |-> len, data |-> zeroed(len)])

o_array_length(arrs, array) ==
    IF array = NULL THEN 0 ELSE arrs[array].length

\* Mutant of ensure_array_bounds: index > length in place of index >= length.
ensure_array_bounds_off_by_one(arrs, array, index) ==
    ~(array = NULL \/ index < 0 \/ index > arrs[array].length)

\* TRUE when ensure_array_bounds returns, FALSE when it calls abort().
ensure_array_bounds(arrs, array, index) ==
    ~(array = NULL \/ index < 0 \/ index >= arrs[array].length)

\* The word read by array->data[index]. Outside the storage the C read is
\* undefined; the public functions never get there (ensure_array_bounds,
\* or a loop bounded by the length just computed, comes first).
data_load(arrs, array, index) ==
    IF index + 1 \in DOMAIN arrs[array].data
    THEN arrs[array].data[index + 1]
    ELSE NULL

\* The array table after array->data[index] = value.
data_store(arrs, array, index, value) ==
    IF index + 1 \in DOMAIN arrs[array].data
    THEN [arrs EXCEPT ![array].data[index + 1] = value]
    ELSE arrs

\* o_array_get(array, index): aborted, or the value returned.
o_array_get(arrs, array, index) ==
    IF ensure_array_bounds(arrs, array, index)
    THEN [aborted |-> FALSE, ret |-> data_load(arrs, array, index)]
    ELSE [aborted |-> TRUE, ret |-> NULL]

\* Mutant of o_array_set: stores into data[index - 1].
o_array_set_slot_before(arrs, array, index, value) ==
    IF ensure_array_bounds(arrs, array, index)
    THEN [aborted |-> FALSE, arrays |-> data_store(arrs, array, index - 1, value)]
    ELSE [aborted |-> TRUE, arrays |-> arrs]

\* o_array_set(array, index, value): aborted, or the array table afterwards.
o_array_set(arrs, array, index, value) ==
    IF ensure_array_bounds(arrs, array, index)
    THEN [aborted |-> FALSE, arrays |-> data_store(arrs, array, index, value)]
    ELSE [aborted |-> TRUE, arrays |-> arrs]

\* ----------------------------------------------------------------- lists
\* The list table after allocate_list(); the new List is the last entry.
allocate_list(lsts) == Append(lsts, [head |-> NULL])

\* The while loop of append_node: the node whose next is NULL.
RECURSIVE last_node(_, _)
last_node(nds, current) ==
    IF nds[current].next # NULL
    THEN last_node(nds, nds[current].next)
    ELSE current

\* Mutant of append_node: the new node is linked in front and returned.
append_node_in_front(nds, head, value) ==
    [nodes |-> Append(nds, [value |-> value, next |-> head]), head |-> Len(nds) + 1]

\* Mutant of append_node: node->next = head in place of node->next = NULL.
append_node_next_is_head(nds, head, value) ==
    LET node == Len(nds) + 1
    IN  IF head = NULL
        THEN [nodes |-> Append(nds, [value |-> value, next |-> NULL]), head |-> node]
        ELSE [nodes |-> [Append(nds, [value |-> value, next |-> head])
                            EXCEPT ![last_node(nds, head)].next = node],
              head |-> head]

\* append_node(head, value): the node table afterwards and the returned head.
append_node(nds, head, value) ==
    LET node == Len(nds) + 1
        withNode == Append(nds, [value |-> value, next |-> NULL])
    IN  IF head = NULL
        THEN [nodes |-> withNode, head |-> node]
        ELSE [nodes |-> [withNode EXCEPT ![last_node(withNode, head)].next = node],
              head |-> head]

\* list = allocate_list(): the tables after o_list_empty() and the result.
o_list_empty(lsts, nds) ==
    [lists |-> allocate_list(lsts), nodes |-> nds, ret |-> Len(lsts) + 1]

o_list_singleton(lsts, nds, value) ==
    LET list == Len(lsts) + 1
        r == append_node(nds, NULL, value)
    IN  [lists |-> [allocate_list(lsts) EXCEPT ![list].head = r.head],
         nodes |-> r.nodes, ret |-> list]

\* Mutant of replicate_loop: the loop runs one time fewer (i = 1 at the start).
RECURSIVE replicate_loop_one_short(_, _, _, _, _)
replicate_loop_one_short(nds, head, value, i, count) ==
    IF i + 1 < count
    THEN LET r == append_node(nds, head, value)
         IN  replicate_loop_one_short(r.nodes, r.head, value, i + 1, count)
    ELSE [nodes |-> nds, head |-> head]

\* The for loop of o_list_replicate, from iteration i on.
RECURSIVE replicate_loop(_, _, _, _, _)
replicate_loop(nds, head, value, i, count) ==
    IF i < count
    THEN LET r == append_node(nds, head, value)
         IN  replicate_loop(r.nodes, r.head, value, i + 1, count)
    ELSE [nodes |-> nds, head |-> head]

o_list_replicate(lsts, nds, value, count) ==
    IF count <= 0
    THEN o_list_empty(lsts, nds)
    ELSE LET list == Len(lsts) + 1
             r == replicate_loop(nds, NULL, value, 0, count)
         IN  [lists |-> [allocate_list(lsts) EXCEPT ![list].head = r.head],
              nodes |-> r.nodes, ret |-> list]

o_list_append(lsts, nds, list, value) ==
    LET l == IF list = NULL THEN Len(lsts) + 1 ELSE list
        ls == IF list = NULL THEN allocate_list(lsts) ELSE lsts
        r == append_node(nds, ls[l].head, value)
    IN  [lists |-> [ls EXCEPT ![l].head = r.head], nodes |-> r.nodes, ret |-> l]

\* Mutant of o_list_head: the value of the last node, not of the first.
o_list_head_of_last(lsts, nds, list) ==
    IF list = NULL \/ lsts[list].head = NULL
    THEN NULL
    ELSE nds[last_node(nds, lsts[list].head)].value

o_list_head(lsts, nds, list) ==
    IF list = NULL \/ lsts[list].head = NULL
    THEN NULL
    ELSE nds[lsts[list].head].value

\* Mutant of o_list_tail: result->head = list->head, the first node is kept.
o_list_tail_keeps_first(lsts, nds, list) ==
    IF list = NULL \/ lsts[list].head = NULL
    THEN allocate_list(lsts)
    ELSE [allocate_list(lsts) EXCEPT ![Len(lsts) + 1].head = lsts[list].head]

\* The list table after o_list_tail(list); the result is the last entry.
o_list_tail(lsts, nds, list) ==
    LET result == Len(lsts) + 1
        withResult == allocate_list(lsts)
    IN  IF list = NULL \/ lsts[list].head = NULL
        THEN withResult
        ELSE [withResult EXCEPT ![result].head = nds[lsts[list].head].next]

\* First loop of o_list_to_array: counts the nodes from `node` on.  The
\* counter is an int32_t; a heap of MaxWords words holds far fewer than 2^31
\* nodes, so ++length never wraps here.
RECURSIVE count_nodes(_, _, _)
count_nodes(nds, node, length) ==
    IF node # NULL
    THEN count_nodes(nds, nds[node].next, length + 1)
    ELSE length

\* Mutant of fill_array: array->data[index] with the ++ forgotten.
RECURSIVE fill_array_no_increment(_, _, _, _, _)
fill_array_no_increment(arrs, array, nds, node, index) ==
    IF node # NULL
    THEN fill_array_no_increment(data_store(arrs, array, index, nds[node].value),
                                 array, nds, nds[node].next, index)
    ELSE arrs

\* Second loop of o_list_to_array: array->data[index++] = node->value.
RECURSIVE fill_array(_, _, _, _, _)
fill_array(arrs, array, nds, node, index) ==
    IF node # NULL
    THEN fill_array(data_store(arrs, array, index, nds[node].value),
                    array, nds, nds[node].next, index + 1)
    ELSE arrs

\* The array table after o_list_to_array(list); the result is the last entry.
o_list_to_array(arrs, lsts, nds, list) ==
    LET first == IF list # NULL THEN lsts[list].head ELSE NULL
        length == count_nodes(nds, first, 0)
        array == Len(arrs) + 1
    IN  fill_array(o_array_new(arrs, length), array, nds, first, 0)

\* ------------------------------------------------------------ observation
\* The node ids met by following next from `node`, at most `fuel` of them.
RECURSIVE Chain(_, _, _)
Chain(nds, node, fuel) ==
    IF node = NULL \/ fuel = 0
    THEN <<>>
    ELSE <<node>> \o Chain(nds, nds[node].next, fuel - 1)

\* The nodes of a List (none for the null pointer), in chain order.
NodesOf(lsts, nds, list) ==
    IF list = NULL THEN <<>> ELSE Chain(nds, lsts[list].head, Len(nds) + 1)

\* The values held by the nodes c, in order.
RECURSIVE ValuesAt(_, _)
ValuesAt(nds, c) ==
    IF c = <<>> THEN <<>> ELSE <<nds[Head(c)].value>> \o ValuesAt(nds, Tail(c))

\* The element sequence of a List: the values of its nodes, in chain order.
Elems(lsts, nds, list) == ValuesAt(nds, NodesOf(lsts, nds, list))

\* What toArray(list) shows of a heap: the contents o_list_to_array produces.
ToArrayOf(lsts, nds, list) ==
    o_list_to_array(<<>>, lsts, nds, list)[1].data

\* ----------------------------------------------------------------- calls
Call(op, array, list, int, value, ret, at) ==
    [op |-> op, array |-> array, list |-> list, int |-> int, value |-> value,
     ret |-> ret, at |-> at]

\* abort(): the process ends inside the call `op`, at the function `at`.
Abort(op, array, list, int, value, at) ==
    /\ proc' = "aborted"
    /\ last' = Call(op, array, list, int, value, NULL, at)
    /\ UNCHANGED <<arrays, lists, nodes, lastSet, created>>

Init ==
    /\ arrays = <<>>
    /\ lists = <<>>
    /\ nodes = <<>>
    /\ proc = "running"
    /\ last = Call("start", NULL, NULL, 0, NULL, NULL, "none")
    /\ lastSet = <<>>
    /\ created = <<>>

\* No o_array_set yet, for each of n slots.
RECURSIVE NeverSet(_)
NeverSet(n) == IF n <= 0 THEN <<>> ELSE Append(NeverSet(n - 1), <<>>)

\* History kept for an Array that a call has just created as arrays'[array].
Record(array) ==
    /\ lastSet' = Append(lastSet, NeverSet(Len(arrays'[array].data)))
    /\ created' = Append(created, arrays'[array])

ArrayNew(length, fail) ==
    /\ proc = "running"
    /\ Fits(ArrayWords + (IF length < 0 THEN 0 ELSE length))
    /\ IF xmalloc(fail) /\ xcalloc(fail)
       THEN /\ arrays' = o_array_new(arrays, length)
            /\ last' = Call("o_array_new", NULL, NULL, length, NULL, Len(arrays) + 1, "none")
            /\ Record(Len(arrays) + 1)
            /\ UNCHANGED <<lists, nodes, proc>>
       ELSE Abort("o_array_new", NULL, NULL, length, NULL, fail)

ArrayLength(array) ==
    /\ proc = "running"
    /\ last' = Call("o_array_length", array, NULL, 0, NULL, o_array_length(arrays, array), "none")
    /\ UNCHANGED <<arrays, lists, nodes, proc, lastSet, created>>

ArrayGet(array, index) ==
    /\ proc = "running"
    /\ LET r == o_array_get(arrays, array, index)
       IN  IF r.aborted
           THEN Abort("o_array_get", array, NULL, index, NULL, "ensure_array_bounds")
           ELSE /\ last' = Call("o_array_get", array, NULL, index, NULL, r.ret, "none")
                /\ UNCHANGED <<arrays, lists, nodes, proc, lastSet, created>>

ArraySet(array, index, value) ==
    /\ proc = "running"
    /\ LET r == o_array_set(arrays, array, index, value)
       IN  IF r.aborted
           THEN Abort("o_array_set", array, NULL, index, value, "ensure_array_bounds")
           ELSE /\ arrays' = r.arrays
                /\ last' = Call("o_array_set", array, NULL, index, value, NULL, "none")
                /\ lastSet' = IF index + 1 \in DOMAIN lastSet[array]
                              THEN [lastSet EXCEPT ![array][index + 1] = <<value>>]
                              ELSE lastSet
                /\ UNCHANGED <<lists, nodes, proc, created>>

ListEmpty(fail) ==
    /\ proc = "running"
    /\ Fits(ListWords)
    /\ IF xmalloc(fail)
       THEN LET r == o_list_empty(lists, nodes)
            IN  /\ lists' = r.lists
                /\ nodes' = r.nodes
                /\ last' = Call("o_list_empty", NULL, NULL, 0, NULL, r.ret, "none")
                /\ UNCHANGED <<arrays, proc, lastSet, created>>
       ELSE Abort("o_list_empty", NULL, NULL, 0, NULL, fail)

ListSingleton(value, fail) ==
    /\ proc = "running"
    /\ Fits(ListWords + NodeWords)
    /\ IF xmalloc(fail)
       THEN LET r == o_list_singleton(lists, nodes, value)
            IN  /\ lists' = r.lists
                /\ nodes' = r.nodes
                /\ last' = Call("o_list_singleton", NULL, NULL, 0, value, r.ret, "none")
                /\ UNCHANGED <<arrays, proc, lastSet, created>>
       ELSE Abort("o_list_singleton", NULL, NULL, 0, value, fail)

ListReplicate(value, count, fail) ==
    /\ proc = "running"
    /\ Fits(ListWords + NodeWords * (IF count < 0 THEN 0 ELSE count))
    /\ IF xmalloc(fail)
       THEN LET r == o_list_replicate(lists, nodes, value, count)
            IN  /\ lists' = r.lists
                /\ nodes' = r.nodes
                /\ last' = Call("o_list_replicate", NULL, NULL, count, value, r.ret, "none")
                /\ UNCHANGED <<arrays, proc, lastSet, created>>
       ELSE Abort("o_list_replicate", NULL, NULL, count, value, fail)

ListAppend(list, value, fail) ==
    /\ proc = "running"
    /\ Fits(NodeWords + (IF list = NULL THEN ListWords ELSE 0))
    /\ IF xmalloc(fail)
       THEN LET r == o_list_append(lists, nodes, list, value)
            IN  /\ lists' = r.lists
                /\ nodes' = r.nodes
                /\ last' = Call("o_list_append", NULL, list, 0, value, r.ret, "none")
                /\ UNCHANGED <<arrays, proc, lastSet, created>>
       ELSE Abort("o_list_append", NULL, list, 0, value, fail)

ListHead(list) ==
    /\ proc = "running"
    /\ last' = Call("o_list_head", NULL, list, 0, NULL, o_list_head(lists, nodes, list), "none")
    /\ UNCHANGED <<arrays, lists, nodes, proc, lastSet, created>>

ListTail(list, fail) ==
    /\ proc = "running"
    /\ Fits(ListWords)
    /\ IF xmalloc(fail)
       THEN /\ lists' = o_list_tail(lists, nodes, list)
            /\ last' = Call("o_list_tail", NULL, list, 0, NULL, Len(lists) + 1, "none")
            /\ UNCHANGED <<arrays, nodes, proc, lastSet, created>>
       ELSE Abort("o_list_tail", NULL, list, 0, NULL, fail)

ListToArray(list, fail) ==
    /\ proc = "running"
    /\ Fits(ArrayWords + Len(NodesOf(lists, nodes, list)))
    /\ IF xmalloc(fail) /\ xcalloc(fail)
       THEN /\ arrays' = o_list_to_array(arrays, lists, nodes, list)
            /\ last' = Call("o_list_to_array", NULL, list, 0, NULL, Len(arrays) + 1, "none")
            /\ Record(Len(arrays) + 1)
            /\ UNCHANGED <<lists, nodes, proc>>
       ELSE Abort("o_list_to_array", NULL, list, 0, NULL, fail)

\* Pointers a caller can hold: NULL and every object allocated so far.
ArrayPtrs == NULL..Len(arrays)
ListPtrs == NULL..Len(lists)

Next ==
    \/ \E length \in Lengths, fail \in ArrayAllocOutcomes : ArrayNew(length, fail)
    \/ \E array \in ArrayPtrs : ArrayLength(array)
    \/ \E array \in ArrayPtrs, index \in Indices : ArrayGet(array, index)
    \/ \E array \in ArrayPtrs, index \in Indices, value \in Values :
          ArraySet(array, index, value)
    \/ \E fail \in ListAllocOutcomes : ListEmpty(fail)
    \/ \E value \in Values, fail \in ListAllocOutcomes : ListSingleton(value, fail)
    \/ \E value \in Values, count \in Counts, fail \in ListAllocOutcomes :
          ListReplicate(value, count, fail)
    \/ \E list \in ListPtrs, value \in Values, fail \in ListAllocOutcomes :
          ListAppend(list, value, fail)
    \/ \E list \in ListPtrs : ListHead(list)
    \/ \E list \in ListPtrs, fail \in ListAllocOutcomes : ListTail(list, fail)
    \/ \E list \in ListPtrs, fail \in ArrayAllocOutcomes : ListToArray(list, fail)

Spec == Init /\ [][Next]_vars

\* ------------------------------------------------------------ properties
\* The call `op` has returned (the process did not abort inside it).
Returned(op) == last.op = op /\ proc = "running"

ListOps ==
    {"o_list_empty", "o_list_singleton", "o_list_replicate", "o_list_append",
     "o_list_head", "o_list_tail", "o_list_to_array"}

\* The sequence s without its first element; empty when s is empty.
Rest(s) == IF s = <<>> THEN <<>> ELSE Tail(s)

\* Lists A and B have a node in common.
Shares(lsts, nds, A, B) ==
    LET a == NodesOf(lsts, nds, A)
        b == NodesOf(lsts, nds, B)
    IN  \E j \in 1..Len(a), k \in 1..Len(b) : a[j] = b[k]

\* C1, as stated: a returning o_array_get(array, i) yields the value of the
\* most recent o_array_set at i, or NULL if no o_array_set at i has happened
\* since the array was created.
C1_GetIsLastSetOrNull ==
    Returned("o_array_get") =>
        LET s == lastSet[last.array][last.int + 1]
        IN  last.ret = IF s # <<>> THEN s[1] ELSE NULL

\* C1, amended: a returning o_array_get(array, i) yields the value of the
\* most recent o_array_set at i or, if there was none, the value the slot got
\* when the array was created: NULL from o_array_new, the i-th element of the
\* list from o_list_to_array.  Every slot of every array holds that value.
C1_GetIsLastSetOrCreated ==
    /\ Returned("o_array_get") =>
          LET s == lastSet[last.array][last.int + 1]
          IN  last.ret = IF s # <<>> THEN s[1]
                         ELSE created[last.array].data[last.int + 1]
    /\ \A a \in 1..Len(arrays) : \A k \in 1..arrays[a].length :
          arrays[a].data[k] = IF lastSet[a][k] # <<>> THEN lastSet[a][k][1]
                              ELSE created[a].data[k]
    /\ Returned("o_array_new") =>
          \A k \in DOMAIN created[last.ret].data : created[last.ret].data[k] = NULL
    /\ Returned("o_list_to_array") =>
          created[last.ret].data = Elems(lists, nodes, last.list)

\* An o_array_get at a slot that was set, after a later set of another value
\* at another slot of the same array.
C1_Witness ==
    /\ Returned("o_array_get")
    /\ lastSet[last.array][last.int + 1] # <<>>
    /\ last.ret # NULL
    /\ \E k \in DOMAIN lastSet[last.array] :
          /\ k # last.int + 1
          /\ lastSet[last.array][k] = <<NULL>>
          /\ created[last.array].data[k] # NULL

\* C2: o_array_get and o_array_set with a null array or an index outside
\* [0, length) abort inside ensure_array_bounds, and the aborting call leaves
\* every slot of every array as it was.
C2_BadAccessAborts ==
    [][(/\ last'.op \in {"o_array_get", "o_array_set"}
        /\ \/ last'.array = NULL
           \/ last'.int < 0
           \/ last'.int >= o_array_length(arrays, last'.array))
       => (/\ proc' = "aborted"
           /\ last'.at = "ensure_array_bounds"
           /\ arrays' = arrays)]_vars

\* An o_array_set that aborted with the index equal to the array's length,
\* on an array that holds a written slot.
C2_Witness ==
    /\ proc = "aborted"
    /\ last.op = "o_array_set"
    /\ last.array # NULL
    /\ last.int = arrays[last.array].length
    /\ last.value # NULL
    /\ \E k \in DOMAIN lastSet[last.array] : lastSet[last.array][k] # <<>>

\* C3: o_array_new(n) returns an array of length n, or 0 when n < 0; the
\* length of every array stays what it was at creation; o_array_length
\* returns that length, 0 for NULL, and never aborts.
C3_LengthFixedAtCreation ==
    /\ Returned("o_array_new") =>
          o_array_length(arrays, last.ret) = IF last.int < 0 THEN 0 ELSE last.int
    /\ \A a \in 1..Len(arrays) :
          /\ o_array_length(arrays, a) = created[a].length
          /\ Len(arrays[a].data) = created[a].length
    /\ last.op = "o_array_length" =>
          /\ proc = "running"
          /\ last.ret = IF last.array = NULL THEN 0 ELSE created[last.array].length

\* o_array_length of an array made by o_array_new(-1), after another array
\* was written.
C3_Witness ==
    /\ Returned("o_array_length")
    /\ last.array # NULL
    /\ last.ret = 0
    /\ \E a \in 1..Len(arrays) : \E k \in DOMAIN lastSet[a] : lastSet[a][k] # <<>>
    /\ \E a \in 1..Len(arrays) : a # last.array /\ arrays[a].length = MaxLen

\* C4: after a returning append(L, v), toArray of the result is toArray(L) as
\* it was before the call followed by v; a non-null L is itself the result,
\* and for a null L the result is a new list that reads like singleton(v).
C4_AppendAddsLast ==
    [][(last'.op = "o_list_append" /\ proc' = "running")
       => LET L == last'.list
              v == last'.value
              r == last'.ret
              s == o_list_singleton(lists, nodes, v)
          IN  /\ ToArrayOf(lists', nodes', r) = Append(ToArrayOf(lists, nodes, L), v)
              /\ L # NULL => r = L
              /\ L = NULL =>
                    /\ r \notin DOMAIN lists
                    /\ ToArrayOf(lists', nodes', r) = ToArrayOf(s.lists, s.nodes, s.ret)]_vars

\* An append of a non-null value to a list that held two elements or more.
C4_Witness ==
    /\ Returned("o_list_append")
    /\ last.list # NULL
    /\ last.value # NULL
    /\ Len(Elems(lists, nodes, last.ret)) >= 3
    /\ Elems(lists, nodes, last.ret)[1] = NULL

\* C5: a returning append(A, v) leaves head(B) and toArray(B) unchanged for
\* every other List B that shares nodes with A.
C5_AppendLeavesSharersAlone ==
    [][(last'.op = "o_list_append" /\ proc' = "running")
       => \A B \in 1..Len(lists) :
             (B # last'.ret /\ last'.list # NULL /\ Shares(lists, nodes, last'.list, B))
             => /\ ToArrayOf(lists', nodes', B) = ToArrayOf(lists, nodes, B)
                /\ o_list_head(lists', nodes', B) = o_list_head(lists, nodes, B)]_vars

\* C6: a returning tail(L) yields a new List, distinct from L, whose toArray
\* is toArray(L) without its first element (empty for a null, empty or
\* one-element L); no List and no node existing before the call is changed,
\* so head(L) and toArray(L) read the same afterwards.
C6_TailIsRestAndPure ==
    [][(last'.op = "o_list_tail" /\ proc' = "running")
       => LET L == last'.list
              r == last'.ret
          IN  /\ r \notin DOMAIN lists
              /\ r \in DOMAIN lists'
              /\ r # L
              /\ ToArrayOf(lists', nodes', r) = Rest(ToArrayOf(lists, nodes, L))
              /\ nodes' = nodes
              /\ \A l \in DOMAIN lists : lists'[l] = lists[l]
              /\ o_list_head(lists', nodes', L) = o_list_head(lists, nodes, L)
              /\ ToArrayOf(lists', nodes', L) = ToArrayOf(lists, nodes, L)]_vars

\* A tail of a list of three elements, the second differing from the first.
C6_Witness ==
    /\ Returned("o_list_tail")
    /\ Len(Elems(lists, nodes, last.list)) >= 3
    /\ Len(Elems(lists, nodes, last.ret)) >= 2
    /\ Elems(lists, nodes, last.list)[1] # Elems(lists, nodes, last.list)[2]

\* C7: a returning toArray(L) yields a new Array whose length is the number
\* of nodes reachable from L's head and whose k-th slot is the k-th node's
\* value (length 0 for a null or empty L); lists, nodes and the arrays that
\* existed before are unchanged.
C7_ToArrayCopiesChain ==
    [][(last'.op = "o_list_to_array" /\ proc' = "running")
       => LET L == last'.list
              r == last'.ret
              c == NodesOf(lists, nodes, L)
          IN  /\ r \notin DOMAIN arrays
              /\ r \in DOMAIN arrays'
              /\ o_array_length(arrays', r) = Cardinality({c[k] : k \in 1..Len(c)})
              /\ o_array_length(arrays', r) = Len(c)
              /\ \A k \in 1..Len(c) : data_load(arrays', r, k - 1) = nodes[c[k]].value
              /\ Len(arrays'[r].data) = Len(c)
              /\ (L = NULL \/ lists[L].head = NULL) => o_array_length(arrays', r) = 0
              /\ lists' = lists
              /\ nodes' = nodes
              /\ \A a \in DOMAIN arrays : arrays'[a] = arrays[a]]_vars

\* A toArray of a list of two elements, the first non-null and the second
\* null, giving an array of two slots.
C7_Witness ==
    /\ Returned("o_list_to_array")
    /\ last.list # NULL
    /\ arrays[last.ret].length = 2
    /\ arrays[last.ret].data[1] # NULL
    /\ arrays[last.ret].data[2] = NULL

\* C8: o_list_head never aborts and returns NULL for a null or empty list
\* and the first node's value otherwise; tail and toArray of a null or empty
\* list return an empty list and a zero-length array; a list function aborts
\* only where an allocation failed, never at a bounds or null check.
C8_ListOpsDegradeGracefully ==
    /\ last.op = "o_list_head" =>
          LET e == Elems(lists, nodes, last.list)
          IN  /\ proc = "running"
              /\ last.ret = IF e = <<>> THEN NULL ELSE e[1]
    /\ (Returned("o_list_tail") /\ Elems(lists, nodes, last.list) = <<>>) =>
          /\ last.ret # NULL
          /\ Elems(lists, nodes, last.ret) = <<>>
    /\ (Returned("o_list_to_array") /\ Elems(lists, nodes, last.list) = <<>>) =>
          /\ last.ret # NULL
          /\ o_array_length(arrays, last.ret) = 0
    /\ last.op \in ListOps =>
          /\ last.at \in {"none", "xmalloc", "xcalloc"}
          /\ proc = "aborted" <=> last.at # "none"

\* A head of a list of two elements or more whose first element is non-null
\* and whose last is null.
C8_Witness ==
    /\ Returned("o_list_head")
    /\ last.ret # NULL
    /\ Len(Elems(lists, nodes, last.list)) >= 2
    /\ Elems(lists, nodes, last.list)[Len(Elems(lists, nodes, last.list))] = NULL

\* C9: a returning replicate(v, c) yields a new list of exactly c elements,
\* all v, held in c distinct nodes that no other list reaches, when c > 0,
\* and an empty list when c <= 0; it aborts only where an allocation failed.
C9_ReplicateMakesCopies ==
    last.op = "o_list_replicate" =>
        /\ last.at \in {"none", "xmalloc"}
        /\ proc = "running" =>
              LET r == last.ret
                  c == NodesOf(lists, nodes, r)
                  n == IF last.int > 0 THEN last.int ELSE 0
              IN  /\ r = Len(lists)
                  /\ Len(c) = n
                  /\ Cardinality({c[k] : k \in 1..Len(c)}) = n
                  /\ \A k \in 1..Len(c) : nodes[c[k]].value = last.value
                  /\ Len(Elems(lists, nodes, r)) = n
                  /\ \A B \in 1..Len(lists) :
                        B # r => ~Shares(lists, nodes, r, B)

\* A replicate of a non-null value with count MaxLen, next to an older list.
C9_Witness ==
    /\ Returned("o_list_replicate")
    /\ last.int = MaxLen
    /\ last.value # NULL
    /\ last.ret >= 2
    /\ Len(Elems(lists, nodes, last.ret)) = MaxLen

\* C10: every node's next is NULL or an allocated node, every list's head
\* likewise, and following next from any node reaches NULL without meeting
\* a node twice, so the loops of append_node and o_list_to_array end.
C10_ChainsAreAcyclic ==
    /\ \A n \in 1..Len(nodes) :
          /\ nodes[n].next \in 0..Len(nodes)
          /\ LET c == Chain(nodes, n, Len(nodes) + 1)
             IN  /\ Len(c) <= Len(nodes)
                 /\ Cardinality({c[k] : k \in 1..Len(c)}) = Len(c)
    /\ \A l \in 1..Len(lists) : lists[l].head \in 0..Len(nodes)

\* An append through a list whose chain is the suffix of another list's
\* chain, both lists reaching the new node.
C10_Witness ==
    /\ Returned("o_list_append")
    /\ \E A \in 1..Len(lists) :
          /\ A # last.ret
          /\ Len(NodesOf(lists, nodes, last.ret)) >= 2
          /\ Rest(NodesOf(lists, nodes, A)) = NodesOf(lists, nodes, last.ret)

====
